---- MODULE Spec2Model ----
(***************************************************************************)
(* web-clipper: the clip() pipeline (clipper.py), HTML conversion and      *)
(* image download (html_processor.py), clipboard image storage             *)
(* (images.py) and path resolution / record formatting / append            *)
(* (storage.py).                                                           *)
(*                                                                         *)
(* Text is a sequence of strings.  In URLs and file names every element is *)
(* one character; the two non-ASCII letters are written "U+00E9" (e acute) *)
(* and "U+00C9" (E acute).  In clip bodies an element is a chunk: a        *)
(* whitespace character, a word, or one markdown image link.               *)
(* A path is a sequence of components, each component a text.              *)
(***************************************************************************)
EXTENDS Integers, Sequences, FiniteSets, TLC

\* the element of a one-element set
The(S) == CHOOSE r \in S : TRUE

\* F applied to the value of v: v is evaluated once, as an assignment does
Let(v, F(_)) == The({F(x) : x \in {v}})

(* ---------------------------------------------------------------------- *)
(* Characters and the classes the regular expressions and str methods use  *)
(* ---------------------------------------------------------------------- *)

AsciiLower == {"a","b","c","d","e","f","g","h","i","j","k","l","m",
               "n","o","p","q","r","s","t","u","v","w","x","y","z"}
AsciiUpper == {"A","B","C"}
Digits == {"0","1","2","3","4","5","6","7","8","9"}
UnicodeLetters == {"U+00E9", "U+00C9"}
\* \w of a str pattern: Unicode letters and digits, and the underscore
WordChars == AsciiLower \cup AsciiUpper \cup Digits \cup UnicodeLetters \cup {"_"}
\* \s of a str pattern, and what str.strip() removes
Whitespace == {" ", "\n", "\t", "\r"}

\* str.lower() on one character
LowerChar(c) ==
    CASE c = "A" -> "a"
      [] c = "B" -> "b"
      [] c = "C" -> "c"
      [] c = "U+00C9" -> "U+00E9"
      [] OTHER -> c

(* ---------------------------------------------------------------------- *)
(* str helpers                                                             *)
(* ---------------------------------------------------------------------- *)

Indices(s) == [i \in 1..Len(s) |-> i]

\* s.find(c) for any c of cs, as a 1-based index; 0 when none occurs
Find(s, cs) ==
    IF \E i \in 1..Len(s) : s[i] \in cs
    THEN CHOOSE i \in 1..Len(s) : s[i] \in cs /\ \A j \in 1..(i - 1) : s[j] \notin cs
    ELSE 0

\* s.rfind(c) for any c of cs, as a 1-based index; 0 when none occurs
RFind(s, cs) ==
    IF \E i \in 1..Len(s) : s[i] \in cs
    THEN CHOOSE i \in 1..Len(s) : s[i] \in cs /\ \A j \in (i + 1)..Len(s) : s[j] \notin cs
    ELSE 0

\* the first and the last position holding a character outside cs
FirstOutside(s, cs) ==
    IF \E i \in 1..Len(s) : s[i] \notin cs
    THEN CHOOSE i \in 1..Len(s) : s[i] \notin cs /\ \A j \in 1..(i - 1) : s[j] \in cs
    ELSE Len(s) + 1

LastOutside(s, cs) ==
    IF \E i \in 1..Len(s) : s[i] \notin cs
    THEN CHOOSE i \in 1..Len(s) : s[i] \notin cs /\ \A j \in (i + 1)..Len(s) : s[j] \in cs
    ELSE 0

\* s.lstrip(cs), s.rstrip(cs), s.strip(cs)
LStrip(s, cs) == SubSeq(s, FirstOutside(s, cs), Len(s))
RStrip(s, cs) == SubSeq(s, 1, LastOutside(s, cs))
Strip(s, cs) == SubSeq(s, FirstOutside(s, cs), LastOutside(s, cs))

\* s.lower()
Lower(s) == [i \in 1..Len(s) |-> LowerChar(s[i])]

\* s.replace(c, d) for single characters
ReplaceChar(s, c, d) == [i \in 1..Len(s) |-> IF s[i] = c THEN d ELSE s[i]]

\* s.replace(c, "") for every c of cs
RemoveChars(s, cs) == SelectSeq(s, LAMBDA c : c \notin cs)

Contains(s, c) == \E i \in 1..Len(s) : s[i] = c

StartsWith(s, p) == Len(s) >= Len(p) /\ SubSeq(s, 1, Len(p)) = p

EndsWith(s, p) == Len(s) >= Len(p) /\ SubSeq(s, Len(s) - Len(p) + 1, Len(s)) = p

\* re.sub(r'[cs]+', rep, s): every maximal run of characters of cs becomes rep
SubRuns(s, cs, rep) ==
    Let(SelectSeq(Indices(s), LAMBDA i : s[i] \notin cs \/ i = 1 \/ s[i - 1] \notin cs),
        LAMBDA keep : [j \in 1..Len(keep) |->
                          IF s[keep[j]] \in cs THEN rep ELSE s[keep[j]]])

\* sep.join(parts)
RECURSIVE JoinFrom(_, _, _)
JoinFrom(parts, i, sep) ==
    IF i > Len(parts) THEN <<>>
    ELSE IF i = Len(parts) THEN parts[i]
    ELSE parts[i] \o sep \o JoinFrom(parts, i + 1, sep)

Join(parts, sep) == Let(parts, LAMBDA p : JoinFrom(p, 1, sep))

\* s.split(c)
Split(s, c) ==
    Let(SelectSeq(Indices(s), LAMBDA i : s[i] = c),
        LAMBDA at : [j \in 1..(Len(at) + 1) |->
                        SubSeq(s, IF j = 1 THEN 1 ELSE at[j - 1] + 1,
                                  IF j = Len(at) + 1 THEN Len(s) ELSE at[j] - 1)])

(* ---------------------------------------------------------------------- *)
(* storage.py: _sanitize_filename                                          *)
(* ---------------------------------------------------------------------- *)

\* re.sub(r'[^\w\s-]', '-', name)
ReplaceInvalid(name) ==
    [i \in 1..Len(name) |->
        IF name[i] \in WordChars \cup Whitespace \cup {"-"} THEN name[i] ELSE "-"]

_sanitize_filename(name) ==
    Let(ReplaceInvalid(name), LAMBDA invalid :
    Let(SubRuns(invalid, Whitespace, "-"), LAMBDA spaces :
    Let(SubRuns(spaces, {"-"}, "-"), LAMBDA hyphens :
    Let(Strip(hyphens, {"-"}), LAMBDA stripped :
        Lower(stripped)))))

(* ---------------------------------------------------------------------- *)
(* urllib.parse.urlparse, as storage.py calls it                           *)
(* ---------------------------------------------------------------------- *)

scheme_chars == AsciiLower \cup AsciiUpper \cup Digits \cup {"+", "-", "."}

\* the schemes for which urlparse splits ";params" off the path
uses_params ==
    {<<>>,
     <<"f","t","p">>,
     <<"h","d","l">>,
     <<"p","r","o","s","p","e","r","o">>,
     <<"h","t","t","p">>,
     <<"i","m","a","p">>,
     <<"h","t","t","p","s">>,
     <<"s","h","t","t","p">>,
     <<"r","t","s","p">>,
     <<"r","t","s","p","s">>,
     <<"r","t","s","p","u">>,
     <<"s","i","p">>,
     <<"s","i","p","s">>,
     <<"m","m","s">>,
     <<"s","f","t","p">>,
     <<"t","e","l">>}

\* _WHATWG_C0_CONTROL_OR_SPACE, restricted to the characters of the model
C0ControlOrSpace == {" ", "\n", "\t", "\r"}

\* _UNSAFE_URL_BYTES_TO_REMOVE
UnsafeUrlBytes == {"\t", "\r", "\n"}

\* the text before the first character of cs, all of it when none occurs
Before(s, cs) == Let(Find(s, cs), LAMBDA k : IF k = 0 THEN s ELSE SubSeq(s, 1, k - 1))

\* the text from the first character of cs on, empty when none occurs
From(s, cs) == Let(Find(s, cs), LAMBDA k : IF k = 0 THEN <<>> ELSE SubSeq(s, k, Len(s)))

\* urlsplit: the scheme, when the text before the first ":" is one
SplitScheme(url) ==
    Let(Find(url, {":"}), LAMBDA i :
        IF /\ i > 1
           /\ url[1] \in AsciiLower \cup AsciiUpper
           /\ \A j \in 1..(i - 1) : url[j] \in scheme_chars
        THEN [scheme |-> Lower(SubSeq(url, 1, i - 1)), url |-> SubSeq(url, i + 1, Len(url))]
        ELSE [scheme |-> <<>>, url |-> url])

\* urlsplit: if url[:2] == '//': netloc, url = _splitnetloc(url, 2)
SplitNetloc(url) ==
    IF StartsWith(url, <<"/", "/">>)
    THEN Let(SubSeq(url, 3, Len(url)), LAMBDA rest :
             [has |-> TRUE, netloc |-> Before(rest, {"/", "?", "#"}),
              url |-> From(rest, {"/", "?", "#"})])
    ELSE [has |-> FALSE, netloc |-> <<>>, url |-> url]

\* _check_bracketed_host accepts only an IPv6 or IPvFuture literal.  Of the
\* characters of the model only hex digits, ":" and "." can form one; the
\* literals accepted here are "::" and "::" followed by one hex group.
HexDigits == Digits \cup {"a","b","c","d","e","f","A","B","C"}
_check_bracketed_host(host) ==
    \/ host = <<":", ":">>
    \/ /\ Len(host) \in 3..6
       /\ SubSeq(host, 1, 2) = <<":", ":">>
       /\ \A i \in 3..Len(host) : host[i] \in HexDigits

\* urlsplit: the checks on a netloc that raise ValueError
NetlocRaises(netloc) ==
    \/ Contains(netloc, "[") /\ ~Contains(netloc, "]")
    \/ Contains(netloc, "]") /\ ~Contains(netloc, "[")
    \/ /\ Contains(netloc, "[") /\ Contains(netloc, "]")
       /\ Let(SubSeq(netloc, Find(netloc, {"["}) + 1, Len(netloc)), LAMBDA a :
              ~_check_bracketed_host(Before(a, {"]"})))

\* _splitparams(url), called only when ";" occurs in url
_splitparams(url) ==
    Let(RFind(url, {"/"}), LAMBDA slash :
        IF slash = 0 THEN Before(url, {";"})
        ELSE SubSeq(url, 1, slash - 1) \o Before(SubSeq(url, slash, Len(url)), {";"}))

\* urlsplit: fragment and query are cut off; urlparse: the parameters too
UrlPath(url, scheme) ==
    Let(Before(Before(url, {"#"}), {"?"}), LAMBDA p :
        IF scheme \in uses_params /\ Contains(p, ";") THEN _splitparams(p) ELSE p)

\* urlparse(url).  raises = TRUE stands for the ValueError of urlsplit.
urlparse(url0) ==
    Let(RemoveChars(LStrip(url0, C0ControlOrSpace), UnsafeUrlBytes), LAMBDA url :
    Let(SplitScheme(url), LAMBDA s :
    Let(SplitNetloc(s.url), LAMBDA n :
        [raises |-> n.has /\ NetlocRaises(n.netloc),
         scheme |-> s.scheme,
         netloc |-> n.netloc,
         path |-> UrlPath(n.url, s.scheme)])))

(* ---------------------------------------------------------------------- *)
(* config.py and pathlib                                                   *)
(* ---------------------------------------------------------------------- *)

\* ClipperConfig.clips_directory: one fixed root
clips_directory == << <<"clips">> >>

\* the flags of ClipperConfig that the modelled code reads
ClipperConfig == [create_subdirs : BOOLEAN, include_timestamp : BOOLEAN]

\* dir / name: pathlib drops a "." component
PathJoin(dir, name) == IF name = <<".">> \/ name = <<>> THEN dir ELSE Append(dir, name)

\* path.parent
Parent(path) == SubSeq(path, 1, Len(path) - 1)

\* the directories mkdir(parents=True, exist_ok=True) makes sure exist
MkdirParents(dir) == {SubSeq(dir, 1, n) : n \in 1..Len(dir)}

(* ---------------------------------------------------------------------- *)
(* storage.py: _get_file_path                                              *)
(* ---------------------------------------------------------------------- *)

unknown == <<"u","n","k","n","o","w","n">>
www_dot == <<"w","w","w",".">>
dot_md == <<".","m","d">>
index_md == <<"i","n","d","e","x",".","m","d">>

\* a variant of the domain below that keeps a leading "www."
DomainOfKeepsWww(netloc) == IF netloc # <<>> THEN netloc ELSE unknown

\* domain = parsed.netloc or "unknown", without a leading "www."
DomainOf(netloc) ==
    Let(IF netloc # <<>> THEN netloc ELSE unknown, LAMBDA domain :
        IF StartsWith(domain, www_dot) THEN SubSeq(domain, 5, Len(domain)) ELSE domain)

\* the file name for parsed.path
FilenameOf(parsed_path) ==
    Let(Strip(parsed_path, {"/"}), LAMBDA path :
        IF path # <<>>
        THEN Let(_sanitize_filename(ReplaceChar(path, "/", "-")), LAMBDA filename :
                 IF EndsWith(filename, dot_md) THEN filename ELSE filename \o dot_md)
        ELSE index_md)

\* the path under clips_directory, and the directories the call makes sure exist
TargetOf(domain, filename, config) ==
    IF config.create_subdirs
    THEN Let(PathJoin(PathJoin(clips_directory, domain), filename), LAMBDA file_path :
             [raises |-> FALSE, path |-> file_path,
              mkdir |-> MkdirParents(Parent(file_path))])
    ELSE [raises |-> FALSE,
          path |-> PathJoin(clips_directory, domain \o <<"_">> \o filename),
          mkdir |-> {}]

\* raises: urlparse raised, and nothing is returned or created
_get_file_path(url, config) ==
    Let(urlparse(url), LAMBDA parsed :
        IF parsed.raises
        THEN [raises |-> TRUE, path |-> <<>>, mkdir |-> {}]
        ELSE TargetOf(DomainOf(parsed.netloc), FilenameOf(parsed.path), config))

(* ---------------------------------------------------------------------- *)
(* Optional values                                                         *)
(* ---------------------------------------------------------------------- *)

\* Optional[T]: None is the empty sequence, a value x is <<x>>
None == <<>>
Some(x) == <<x>>

(* ---------------------------------------------------------------------- *)
(* storage.py: _format_clip                                                *)
(* ---------------------------------------------------------------------- *)

\* a variant of the list below that keeps every entry as it is
TagListUntrimmed(tags) ==
    Let(Split(tags, ","), LAMBDA entries : [i \in 1..Len(entries) |-> <<"#">> \o entries[i]])

\* [f"#{tag.strip()}" for tag in tags.split(",") if tag.strip()]
TagList(tags) ==
    Let(SelectSeq(Split(tags, ","), LAMBDA t : Strip(t, Whitespace) # <<>>),
        LAMBDA kept : [i \in 1..Len(kept) |-> <<"#">> \o Strip(kept[i], Whitespace)])

\* datetime.now().strftime(config.timestamp_format): the text of the time read
Timestamp(now) == "t" \o ToString(now)

_format_clip(content, url, title, tags, config, now) ==
    Let(IF tags # None /\ tags[1] # <<>> THEN TagList(tags[1]) ELSE <<>>, LAMBDA tag_list :
        Join(<< <<"---">>,
                <<"## Clip: ", IF title # None /\ title[1] # "" THEN title[1]
                               ELSE "Untitled">>,
                <<"- **URL**: ">> \o url >>
             \o (IF config.include_timestamp
                 THEN << <<"- **Captured**: ", Timestamp(now)>> >> ELSE <<>>)
             \o (IF tag_list # <<>>
                 THEN << <<"- **Tags**: ">> \o Join(tag_list, <<" ">>) >> ELSE <<>>)
             \o << <<>>, Strip(content, Whitespace), <<>>, <<"---">>, <<>> >>,
             <<"\n">>))

(* ---------------------------------------------------------------------- *)
(* html_processor.py / images.py: image names and links                    *)
(* ---------------------------------------------------------------------- *)

\* clips_directory / "images"
images_dir == PathJoin(clips_directory, <<"images">>)

\* f"image_{timestamp_ms}_{counter}{ext}"
ImageName(timestamp_ms, counter, ext) ==
    "image_" \o ToString(timestamp_ms) \o "_" \o ToString(counter) \o ext

ImagePath(timestamp_ms, counter, ext) ==
    PathJoin(images_dir, <<ImageName(timestamp_ms, counter, ext)>>)

\* a variant of the probe below that takes the first name whatever exists
ProbeNothing(existing, timestamp_ms, counter, ext) == counter

\* counter = 0; while image_path.exists(): counter += 1
RECURSIVE ProbeCounter(_, _, _, _)
ProbeCounter(existing, timestamp_ms, counter, ext) ==
    IF ImagePath(timestamp_ms, counter, ext) \in existing
    THEN ProbeCounter(existing, timestamp_ms, counter + 1, ext)
    ELSE counter

\* the src values of the modelled documents, and the extension download_image
\* derives from each (no "." in the last path segment: ".png")
RemoteSrcs == {"a.jpg", "/img/b"}
DataSrc == "data:x"
ExtOf(src) == IF src = "a.jpg" THEN ".jpg" ELSE ".png"

\* the src written for a downloaded image
LocalRef(name) == "./images/" \o name

\* markdown image syntax
ImageLink(alt, ref) == "![" \o alt \o "](" \o ref \o ")"

\* str of a component and of a path: the components joined by "/"
RECURSIVE ConcatFrom(_, _)
ConcatFrom(text, i) == IF i > Len(text) THEN "" ELSE text[i] \o ConcatFrom(text, i + 1)

RECURSIVE PathStrFrom(_, _)
PathStrFrom(path, i) ==
    IF i > Len(path) THEN "."
    ELSE IF i = Len(path) THEN ConcatFrom(path[i], 1)
    ELSE ConcatFrom(path[i], 1) \o "/" \o PathStrFrom(path, i + 1)

\* image_path.relative_to(clips_directory), the absolute path when it is not
\* below it; str() of a path never starts with "./", so "./" is always put first
get_markdown_image_link(image_path, clips_dir, alt_text) ==
    Let(IF StartsWith(image_path, clips_dir)
        THEN SubSeq(image_path, Len(clips_dir) + 1, Len(image_path))
        ELSE << <<"">> >> \o image_path,
        LAMBDA rel_path : ImageLink(alt_text, "./" \o PathStrFrom(rel_path, 1)))

(* ---------------------------------------------------------------------- *)
(* html_processor.py: the clipboard's HTML document and its conversion     *)
(* ---------------------------------------------------------------------- *)

\* A document is the sequence of its elements in document order: text and
\* <img> elements (src = "" stands for an <img> without src).
TextEl(v) == [tag |-> "text", v |-> v]
ImgEl(src) == [tag |-> "img", v |-> src]

\* soup.find_all('img'): the positions of the image elements
ImgPositions(doc) == SelectSeq(Indices(doc), LAMBDA i : doc[i].tag = "img")

\* re.sub(r'\n{3,}', '\n\n', markdown): of a run of newlines two are kept
CollapseNewlines(s) ==
    Let(SelectSeq(Indices(s), LAMBDA i :
            ~(s[i] = "\n" /\ i >= 3 /\ s[i - 1] = "\n" /\ s[i - 2] = "\n")),
        LAMBDA keep : [j \in 1..Len(keep) |-> s[keep[j]]])

\* md(modified_html, ...) then the newline clean-up and strip(): text passes
\* through, an image element becomes ![](src)
Markdown(doc) ==
    Let([i \in 1..Len(doc) |->
            IF doc[i].tag = "img" THEN ImageLink("", doc[i].v) ELSE doc[i].v],
        LAMBDA markdown :
    Let(CollapseNewlines(markdown), LAMBDA collapsed :
        Strip(collapsed, Whitespace)))

(* ---------------------------------------------------------------------- *)
(* The inputs of an invocation                                             *)
(* ---------------------------------------------------------------------- *)

\* the largest value of the millisecond clock
MaxClock == 1

\* get_html_from_clipboard(): None, or the HTML the pasteboard exposes
HtmlDocs ==
    { <<>>,
      <<ImgEl("a.jpg"), TextEl("hello"), ImgEl(""), ImgEl(DataSrc), ImgEl("/img/b")>> }

\* pyperclip.paste(): empty, whitespace only, text
ClipboardTexts == { <<>>, <<" ", "\n">>, <<" ", "hello">> }

Clipboards == [html : {None} \cup {Some(d) : d \in HtmlDocs},
               text : ClipboardTexts,
               image : BOOLEAN]

\* the tags argument of clip()
TagArgs == {None, Some(<<"x", ",", " ", "y">>)}

\* what get_browser_context() returns when a browser answers
BrowserContext(url, title) == [url |-> url, title |-> title]
BrowserAnswers ==
    { BrowserContext(<<"h","t","t","p",":","/","/","a","/","b">>, Some("T")),
      BrowserContext(<<"h","t","t","p",":","/","/","w","w","w",".","a","/","b">>, None) }

\* the base URL clip() falls back to when no browser answers
fallback_url == <<"h","t","t","p","s",":","/","/","e","x","a","m","p","l","e",".","c","o","m">>

(* ---------------------------------------------------------------------- *)
(* State                                                                   *)
(* ---------------------------------------------------------------------- *)

VARIABLES
    pc,               \* where clip() is: idle, ctx_html, convert, images, text,
                      \* image, validate, context, save, done
    clipboard,        \* the clipboard of the running invocation
    config,           \* its ClipperConfig
    tags,             \* its tags argument
    html_content,     \* clip(): html_content
    soup,             \* process_html_images(): the parsed document
    img_k,            \* process_html_images(): the next image of find_all('img')
    content,          \* clip(): content
    image_count,      \* clip(): image_count
    browser_context,  \* clip(): browser_context (None or Some(BrowserContext))
    base_url,         \* clip(): base_url
    queries,          \* calls of get_browser_context() in the running invocation
    result,           \* what clip() returned or raised
    files,            \* the clip files: path -> text
    dirs,             \* the directories that exist
    image_files,      \* the image files: path -> what was written
    clock,            \* time.time() in milliseconds
    calls,            \* the save_clip calls that returned: arguments, path, text
    events,           \* the conditions met by the running invocation
    downloads,        \* the download_image calls of the running invocation
    written,          \* the image files written by this process, in order
    nsaves,           \* save_clip called on its own: the calls so far
    p_pc,             \* _get_file_path called on its own: call, returned, raised
    p_url,            \* its url argument
    p_config,         \* its config argument
    p_ret,            \* what it returned and created
    s_name,           \* _sanitize_filename called on its own: its argument
    s_ret,            \* None, or what it returned
    f_args,           \* _format_clip called on its own: its arguments
    f_ret,            \* None, or what it returned
    race              \* two invocations at once: where each is in naming and
                      \* writing its image

clipVars == <<pc, clipboard, config, tags, html_content, soup, img_k,
              content, image_count, browser_context, base_url, queries, result>>
diskVars == <<files, dirs, image_files, clock>>
logVars == <<calls, events, downloads, written>>
sanVars == <<s_name, s_ret>>
fmtVars == <<f_args, f_ret>>
raceVars == <<race>>
pathVars == <<nsaves, p_pc, p_url, p_config, p_ret, sanVars, fmtVars, raceVars>>
vars == <<clipVars, diskVars, logVars, pathVars>>

Pending == [kind |-> "pending", cause |-> "", file_path |-> <<>>, url |-> <<>>,
            title |-> None, content_length |-> 0]

\* ClipResult(file_path, url, title, content_length)
ClipResult(file_path, url, title, content_length) ==
    [kind |-> "ClipResult", cause |-> "", file_path |-> file_path, url |-> url,
     title |-> title, content_length |-> content_length]

\* an exception leaving clip()
Raised(kind, cause) == [Pending EXCEPT !.kind = kind, !.cause = cause]

NoFiles == [p \in {} |-> <<>>]

\* What an invocation finds on disk: nothing, or what an earlier run with the
\* default configuration left after clipping a text and an image from a page.
EmptyDisk == [files |-> NoFiles, dirs |-> {}, image_files |-> NoFiles]
EarlierConfig == [create_subdirs |-> TRUE, include_timestamp |-> TRUE]
EarlierUrl == <<"h","t","t","p",":","/","/","a","/","b">>
EarlierImage == ImagePath(0, 0, ".png")
EarlierContent ==
    <<"old", "\n", "\n", get_markdown_image_link(EarlierImage, clips_directory,
                                                 "clipboard_image")>>
EarlierDisk ==
    Let(_get_file_path(EarlierUrl, EarlierConfig), LAMBDA target :
        [files |-> [q \in {target.path} |->
                      _format_clip(EarlierContent, EarlierUrl, None, None,
                                   EarlierConfig, 0)],
         dirs |-> MkdirParents(images_dir) \cup target.mkdir,
         image_files |-> [q \in {EarlierImage} |->
                            [src |-> "clipboard", run |-> "earlier"]]])
Disks == {EmptyDisk, EarlierDisk}

ClipInit ==
    /\ pc = "idle"
    /\ clipboard = [html |-> None, text |-> <<>>, image |-> FALSE]
    /\ config = [create_subdirs |-> TRUE, include_timestamp |-> TRUE]
    /\ tags = None
    /\ html_content = None
    /\ soup = <<>>
    /\ img_k = 1
    /\ content = <<>>
    /\ image_count = 0
    /\ browser_context = None
    /\ base_url = <<>>
    /\ queries = 0
    /\ result = Pending
    /\ \E disk \in Disks :
          /\ files = disk.files
          /\ dirs = disk.dirs
          /\ image_files = disk.image_files
    /\ clock = 0
    /\ calls = <<>>
    /\ events = {}
    /\ downloads = <<>>
    /\ written = <<>>

\* the two invocations that run at once, as two processes
Procs == {"p1", "p2"}

\* no second invocation runs
RaceIdle ==
    race = [p \in Procs |-> [pc |-> "off", timestamp_ms |-> 0, counter |-> 0, ext |-> ".png"]]

\* _format_clip is not called
FormatIdle ==
    /\ f_args = [content |-> <<>>, url |-> <<>>, title |-> None, tags |-> None,
                 config |-> [create_subdirs |-> TRUE, include_timestamp |-> TRUE],
                 now |-> 0]
    /\ f_ret = None

PathIdle ==
    /\ nsaves = 0
    /\ p_pc = "off"
    /\ p_url = <<>>
    /\ p_config = [create_subdirs |-> TRUE, include_timestamp |-> TRUE]
    /\ p_ret = [path |-> <<>>, mkdir |-> {}]
    /\ s_name = <<>>
    /\ s_ret = None
    /\ FormatIdle
    /\ RaceIdle

Init == ClipInit /\ PathIdle

(* ---------------------------------------------------------------------- *)
(* clipper.py: clip()                                                      *)
(* ---------------------------------------------------------------------- *)

\* clip() is entered: the arguments, the clipboard, get_html_from_clipboard()
ClipStart ==
    /\ pc = "idle"
    /\ \E cb \in Clipboards, cfg \in ClipperConfig, tg \in TagArgs :
          /\ clipboard' = cb
          /\ config' = cfg
          /\ tags' = tg
          /\ html_content' = cb.html
          /\ pc' = IF cb.html # None THEN "ctx_html" ELSE "text"
    /\ soup' = <<>>
    /\ img_k' = 1
    /\ content' = <<>>
    /\ image_count' = 0
    /\ browser_context' = None
    /\ base_url' = <<>>
    /\ queries' = 0
    /\ result' = Pending
    /\ events' = {}
    /\ UNCHANGED <<diskVars, calls, downloads, written, pathVars>>

\* HTML present: get_browser_context() answers
HtmlContextOk ==
    /\ pc = "ctx_html"
    /\ \E ctx \in BrowserAnswers :
          /\ browser_context' = Some(ctx)
          /\ base_url' = ctx.url
    /\ queries' = queries + 1
    /\ pc' = "convert"
    /\ UNCHANGED <<clipboard, config, tags, html_content, soup, img_k,
                   content, image_count, result, diskVars, logVars, pathVars>>

\* HTML present: get_browser_context() raises BrowserError
HtmlContextFails ==
    /\ pc = "ctx_html"
    /\ base_url' = fallback_url
    /\ browser_context' = Some(BrowserContext(fallback_url, None))
    /\ queries' = queries + 1
    /\ events' = events \cup {"BrowserError"}
    /\ pc' = "convert"
    /\ UNCHANGED <<clipboard, config, tags, html_content, soup, img_k,
                   content, image_count, result, diskVars, calls, downloads, written, pathVars>>

\* process_html_images(): images_dir.mkdir and the parse
ConvertBegin ==
    /\ pc = "convert"
    /\ dirs' = dirs \cup MkdirParents(images_dir)
    /\ soup' = html_content[1]
    /\ img_k' = 1
    /\ image_count' = 0
    /\ pc' = "images"
    /\ UNCHANGED <<clipboard, config, tags, html_content, content,
                   browser_context, base_url, queries, result,
                   files, image_files, clock, logVars, pathVars>>

\* the image element the loop of process_html_images is at
CurImg == ImgPositions(soup)[img_k]
InImageLoop == pc = "images" /\ img_k <= Len(ImgPositions(soup))

\* a variant of the step below in which the skipped image is counted
SkipImageCounted ==
    /\ InImageLoop
    /\ soup[CurImg].v \in {"", DataSrc}
    /\ img_k' = img_k + 1
    /\ image_count' = image_count + 1
    /\ UNCHANGED <<pc, clipboard, config, tags, html_content, soup, content,
                   browser_context, base_url, queries, result,
                   diskVars, logVars, pathVars>>

\* an <img> without src, or with a data: src: continue
SkipImage ==
    /\ InImageLoop
    /\ soup[CurImg].v \in {"", DataSrc}
    /\ img_k' = img_k + 1
    /\ UNCHANGED <<pc, clipboard, config, tags, html_content, soup, content,
                   image_count, browser_context, base_url, queries, result,
                   diskVars, logVars, pathVars>>

\* open(image_path, 'wb'): the file is created or replaced
WriteImage(existing, image_path, data) ==
    [q \in DOMAIN existing \cup {image_path} |->
        IF q = image_path THEN data ELSE existing[q]]

\* download_image() returns a path: the name is probed, the image fetched and
\* written, the src rewritten and counted
DownloadImage ==
    /\ InImageLoop
    /\ soup[CurImg].v \in RemoteSrcs
    /\ \E timestamp_ms \in clock..MaxClock, src \in {soup[CurImg].v} :
       \E counter \in {ProbeCounter(DOMAIN image_files, timestamp_ms, 0, ExtOf(src))} :
          /\ clock' = timestamp_ms
          /\ image_files' = WriteImage(image_files,
                                       ImagePath(timestamp_ms, counter, ExtOf(src)),
                                       [src |-> src, run |-> "this"])
          /\ soup' = [soup EXCEPT ![CurImg].v =
                         LocalRef(ImageName(timestamp_ms, counter, ExtOf(src)))]
          /\ downloads' = Append(downloads,
                 [src |-> src,
                  local_path |-> Some(ImagePath(timestamp_ms, counter, ExtOf(src)))])
          /\ written' = Append(written,
                 [path |-> ImagePath(timestamp_ms, counter, ExtOf(src)),
                  timestamp_ms |-> timestamp_ms, counter |-> counter,
                  ext |-> ExtOf(src)])
    /\ image_count' = image_count + 1
    /\ img_k' = img_k + 1
    /\ UNCHANGED <<pc, clipboard, config, tags, html_content, content,
                   browser_context, base_url, queries, result,
                   files, dirs, calls, events, pathVars>>

\* a variant of the step below in which a failed image is counted too
DownloadImageFailsCounted ==
    /\ InImageLoop
    /\ soup[CurImg].v \in RemoteSrcs
    /\ img_k' = img_k + 1
    /\ image_count' = image_count + 1
    /\ events' = events \cup {"ImageFetchFailure"}
    /\ downloads' = Append(downloads, [src |-> soup[CurImg].v, local_path |-> None])
    /\ UNCHANGED <<pc, clipboard, config, tags, html_content, soup, content,
                   browser_context, base_url, queries, result,
                   diskVars, calls, written, pathVars>>

\* download_image() returns None: the request or the write failed
DownloadImageFails ==
    /\ InImageLoop
    /\ soup[CurImg].v \in RemoteSrcs
    /\ img_k' = img_k + 1
    /\ events' = events \cup {"ImageFetchFailure"}
    /\ downloads' = Append(downloads, [src |-> soup[CurImg].v, local_path |-> None])
    /\ UNCHANGED <<pc, clipboard, config, tags, html_content, soup, content,
                   image_count, browser_context, base_url, queries, result,
                   diskVars, calls, written, pathVars>>

\* a variant of the step below after which the text path runs all the same
ConvertDoneThenText ==
    /\ pc = "images"
    /\ img_k > Len(ImgPositions(soup))
    /\ content' = Markdown(soup)
    /\ pc' = "text"
    /\ UNCHANGED <<clipboard, config, tags, html_content, soup, img_k,
                   image_count, browser_context, base_url, queries, result,
                   diskVars, logVars, pathVars>>

\* html_to_markdown() returns (markdown, image_count)
ConvertDone ==
    /\ pc = "images"
    /\ img_k > Len(ImgPositions(soup))
    /\ content' = Markdown(soup)
    /\ pc' = "validate"
    /\ UNCHANGED <<clipboard, config, tags, html_content, soup, img_k,
                   image_count, browser_context, base_url, queries, result,
                   diskVars, logVars, pathVars>>

\* html_to_markdown() raises, in mkdir or the parse before any image, or in the
\* conversion after the last: clip() falls back to plain text
ConvertRaises ==
    /\ \/ pc = "convert"
       \/ pc = "images" /\ img_k > Len(ImgPositions(soup))
    /\ html_content' = None
    /\ browser_context' = None
    /\ events' = events \cup {"ConversionFailure"}
    /\ image_count' = 0
    /\ pc' = "text"
    /\ UNCHANGED <<clipboard, config, tags, soup, img_k, content,
                   base_url, queries, result, diskVars, calls, downloads, written, pathVars>>

\* pyperclip.paste() returns the clipboard text
ReadText ==
    /\ pc = "text"
    /\ content' = clipboard.text
    /\ pc' = "image"
    /\ UNCHANGED <<clipboard, config, tags, html_content, soup, img_k,
                   image_count, browser_context, base_url, queries, result,
                   diskVars, logVars, pathVars>>

\* pyperclip.paste() raises UnicodeDecodeError and the pbpaste fallback decodes
\* the bytes with errors='replace'
ReadTextFallback ==
    /\ pc = "text"
    /\ content' = clipboard.text
    /\ events' = events \cup {"UnicodeDecodeError"}
    /\ pc' = "image"
    /\ UNCHANGED <<clipboard, config, tags, html_content, soup, img_k,
                   image_count, browser_context, base_url, queries, result,
                   diskVars, calls, downloads, written, pathVars>>

\* pyperclip.paste() raises another exception, or UnicodeDecodeError and the
\* fallback fails too: ClipperError("Failed to read clipboard ...")
ReadTextFails ==
    /\ pc = "text"
    /\ result' = Raised("ClipperError", "read")
    /\ events' = events \cup {"ClipboardReadFailure"}
    /\ pc' = "done"
    /\ UNCHANGED <<clipboard, config, tags, html_content, soup, img_k, content,
                   image_count, browser_context, base_url, queries,
                   diskVars, calls, downloads, written, pathVars>>

\* save_clipboard_image(): has_clipboard_image() is false
NoImage ==
    /\ pc = "image"
    /\ ~clipboard.image
    /\ pc' = "validate"
    /\ UNCHANGED <<clipboard, config, tags, html_content, soup, img_k, content,
                   image_count, browser_context, base_url, queries, result,
                   diskVars, logVars, pathVars>>

\* save_clipboard_image() stores the image; clip() links it
StoreImage ==
    /\ pc = "image"
    /\ clipboard.image
    /\ dirs' = dirs \cup MkdirParents(images_dir)
    /\ \E timestamp_ms \in clock..MaxClock :
       \E counter \in {ProbeCounter(DOMAIN image_files, timestamp_ms, 0, ".png")} :
       \E image_path \in {ImagePath(timestamp_ms, counter, ".png")} :
       \E image_markdown \in {get_markdown_image_link(image_path, clips_directory,
                                                      "clipboard_image")} :
          /\ clock' = timestamp_ms
          /\ image_files' = WriteImage(image_files, image_path,
                                       [src |-> "clipboard", run |-> "this"])
          /\ written' = Append(written,
                 [path |-> image_path, timestamp_ms |-> timestamp_ms,
                  counter |-> counter, ext |-> ".png"])
          /\ content' = IF Strip(content, Whitespace) # <<>>
                        THEN Strip(content, Whitespace) \o <<"\n", "\n", image_markdown>>
                        ELSE <<image_markdown>>
    /\ image_count' = 1
    /\ pc' = "validate"
    /\ UNCHANGED <<clipboard, config, tags, html_content, soup, img_k,
                   browser_context, base_url, queries, result,
                   files, calls, events, downloads, pathVars>>

\* save_clipboard_image(): osascript and pngpaste both fail: None
StoreImageFails ==
    /\ pc = "image"
    /\ clipboard.image
    /\ dirs' = dirs \cup MkdirParents(images_dir)
    /\ events' = events \cup {"ImageStoreFailure"}
    /\ pc' = "validate"
    /\ UNCHANGED <<clipboard, config, tags, html_content, soup, img_k, content,
                   image_count, browser_context, base_url, queries, result,
                   files, image_files, clock, calls, downloads, written, pathVars>>

\* save_clipboard_image(): images_dir.mkdir raises OSError, which clip() lets pass
ImageDirFails ==
    /\ pc = "image"
    /\ clipboard.image
    /\ result' = Raised("OSError", "mkdir")
    /\ events' = events \cup {"StorageFailure"}
    /\ pc' = "done"
    /\ UNCHANGED <<clipboard, config, tags, html_content, soup, img_k, content,
                   image_count, browser_context, base_url, queries,
                   diskVars, calls, downloads, written, pathVars>>

\* a variant of the test below without the strip(): "not content" alone
IsBlankUnstripped(text) == text = <<>>

\* not content or not content.strip()
IsBlank(text) == Strip(text, Whitespace) = <<>>

\* if not content or not content.strip(): raise NoClipboardContentError
ValidateEmpty ==
    /\ pc = "validate"
    /\ IsBlank(content)
    /\ result' = Raised("NoClipboardContentError", "")
    /\ pc' = "done"
    /\ UNCHANGED <<clipboard, config, tags, html_content, soup, img_k, content,
                   image_count, browser_context, base_url, queries,
                   diskVars, logVars, pathVars>>

\* the content is kept: the context is asked for if none was kept
ValidateOk ==
    /\ pc = "validate"
    /\ ~IsBlank(content)
    /\ pc' = IF browser_context = None THEN "context" ELSE "save"
    /\ UNCHANGED <<clipboard, config, tags, html_content, soup, img_k, content,
                   image_count, browser_context, base_url, queries, result,
                   diskVars, logVars, pathVars>>

\* browser_context is None: get_browser_context() answers
ContextOk ==
    /\ pc = "context"
    /\ \E ctx \in BrowserAnswers : browser_context' = Some(ctx)
    /\ queries' = queries + 1
    /\ pc' = "save"
    /\ UNCHANGED <<clipboard, config, tags, html_content, soup, img_k, content,
                   image_count, base_url, result, diskVars, logVars, pathVars>>

\* a variant of the step below in which the BrowserError leaves clip()
ContextFailsRaises ==
    /\ pc = "context"
    /\ queries' = queries + 1
    /\ events' = events \cup {"BrowserError"}
    /\ result' = Raised("BrowserError", "")
    /\ pc' = "done"
    /\ UNCHANGED <<clipboard, config, tags, html_content, soup, img_k, content,
                   image_count, browser_context, base_url,
                   diskVars, calls, downloads, written, pathVars>>

\* browser_context is None: get_browser_context() raises BrowserError
ContextFails ==
    /\ pc = "context"
    /\ browser_context' = Some(BrowserContext(unknown, None))
    /\ queries' = queries + 1
    /\ events' = events \cup {"BrowserError"}
    /\ pc' = "save"
    /\ UNCHANGED <<clipboard, config, tags, html_content, soup, img_k, content,
                   image_count, base_url, result, diskVars, calls, downloads, written, pathVars>>

(* ---------------------------------------------------------------------- *)
(* storage.py: save_clip                                                   *)
(* ---------------------------------------------------------------------- *)

\* a variant of the write below with mode "w": the file is truncated first
WriteText(existing, file_path, clip_text) ==
    [q \in DOMAIN existing \cup {file_path} |->
        IF q = file_path THEN clip_text ELSE existing[q]]

\* with open(file_path, "a") as f: f.write(clip_text)
AppendText(existing, file_path, clip_text) ==
    [q \in DOMAIN existing \cup {file_path} |->
        IF q = file_path
        THEN (IF q \in DOMAIN existing THEN existing[q] ELSE <<>>) \o clip_text
        ELSE existing[q]]

\* save_clip(content, url, title, tags, config) returns file_path
save_clip(body, url, title, tag_arg, cfg, now) ==
    \E resolved \in {_get_file_path(url, cfg)},
       clip_text \in {_format_clip(body, url, title, tag_arg, cfg, now)} :
       /\ ~resolved.raises
       /\ dirs' = dirs \cup MkdirParents(clips_directory) \cup resolved.mkdir
       /\ files' = AppendText(files, resolved.path, clip_text)
       /\ calls' = Append(calls, [url |-> url, config |-> cfg, content |-> body,
                                  file_path |-> resolved.path, clip_text |-> clip_text])

\* clip(): save_clip() returns, and clip() returns the ClipResult
SaveClip ==
    /\ pc = "save"
    /\ save_clip(content, browser_context[1].url, browser_context[1].title, tags,
                 config, clock)
    /\ result' = ClipResult(calls'[Len(calls')].file_path, browser_context[1].url,
                            browser_context[1].title, Len(content))
    /\ pc' = "done"
    /\ UNCHANGED <<clipboard, config, tags, html_content, soup, img_k, content,
                   image_count, browser_context, base_url, queries,
                   image_files, clock, events, downloads, written, pathVars>>

\* save_clip() raises (a directory cannot be made, the file cannot be opened or
\* written, urlparse raises): ClipperError("Failed to save clip ...")
SaveFails ==
    /\ pc = "save"
    /\ result' = Raised("ClipperError", "save")
    /\ events' = events \cup {"StorageFailure"}
    /\ pc' = "done"
    /\ UNCHANGED <<clipboard, config, tags, html_content, soup, img_k, content,
                   image_count, browser_context, base_url, queries,
                   diskVars, calls, downloads, written, pathVars>>

Next ==
    \/ ClipStart
    \/ HtmlContextOk \/ HtmlContextFails
    \/ ConvertBegin \/ SkipImage \/ DownloadImage \/ DownloadImageFails
    \/ ConvertDone \/ ConvertRaises
    \/ ReadText \/ ReadTextFallback \/ ReadTextFails
    \/ NoImage \/ StoreImage \/ StoreImageFails \/ ImageDirFails
    \/ ValidateEmpty \/ ValidateOk
    \/ ContextOk \/ ContextFails
    \/ SaveClip \/ SaveFails

Spec == Init /\ [][Next]_vars

(* ---------------------------------------------------------------------- *)
(* save_clip called on its own, as tests/test_storage.py calls it          *)
(* ---------------------------------------------------------------------- *)

\* how many calls of save_clip one run makes
MaxSaves == 2

SaveArgs ==
    [content : { <<"one">>, <<" ", "two", "\n">> },
     context : BrowserAnswers \cup {BrowserContext(unknown, None)},
     tags : TagArgs,
     config : ClipperConfig]

\* save_clip(...) returns
SaveCall ==
    /\ nsaves < MaxSaves
    /\ nsaves' = nsaves + 1
    /\ \E a \in SaveArgs :
          save_clip(a.content, a.context.url, a.context.title, a.tags, a.config, clock)
    /\ UNCHANGED <<clipVars, image_files, clock, events, downloads, written,
                   p_pc, p_url, p_config, p_ret, sanVars, fmtVars, raceVars>>

\* save_clip(...) raises: a directory cannot be made, the file cannot be opened
SaveCallRaises ==
    /\ nsaves < MaxSaves
    /\ nsaves' = nsaves + 1
    /\ UNCHANGED <<clipVars, diskVars, logVars, p_pc, p_url, p_config, p_ret, sanVars, fmtVars, raceVars>>

NextSave == SaveCall \/ SaveCallRaises

SpecSave == Init /\ [][NextSave]_vars

(* ---------------------------------------------------------------------- *)
(* _get_file_path called on its own, as tests/test_storage.py calls it     *)
(* ---------------------------------------------------------------------- *)

\* how many pieces the host part and the path part of an input url have
MaxHostTokens == 2
MaxPathTokens == 3

Schemes == { <<>>, <<"h","t","t","p",":">> }
Slashes == { <<>>, <<"/","/">> }
HostTokens == { www_dot, <<"a">>, <<"[">> }
PathTokens == { <<"/">>, <<"/","a">>, <<"B">>, <<".">>, <<" ">>, <<"?">> }

TokenSeqs(tokens, n) == UNION {[1..k -> tokens] : k \in 0..n}

\* the input strings: an optional scheme, an optional "//", host pieces, path pieces
UrlInputs ==
    { sch \o sl \o Join(h, <<>>) \o Join(p, <<>>) :
        sch \in Schemes, sl \in Slashes,
        h \in TokenSeqs(HostTokens, MaxHostTokens),
        p \in TokenSeqs(PathTokens, MaxPathTokens) }

InitPath ==
    /\ ClipInit
    /\ files = EmptyDisk.files
    /\ nsaves = 0
    /\ p_pc = "call"
    /\ p_url \in UrlInputs
    /\ p_config \in {c \in ClipperConfig : c.include_timestamp}
    /\ p_ret = [path |-> <<>>, mkdir |-> {}]
    /\ s_name = <<>>
    /\ s_ret = None
    /\ FormatIdle
    /\ RaceIdle

\* _get_file_path(url, config) returns
PathReturns ==
    /\ p_pc = "call"
    /\ \E r \in {_get_file_path(p_url, p_config)} :
          /\ ~r.raises
          /\ p_ret' = [path |-> r.path, mkdir |-> r.mkdir]
    /\ p_pc' = "returned"
    /\ UNCHANGED <<clipVars, diskVars, logVars, nsaves, p_url, p_config, sanVars, fmtVars, raceVars>>

\* _get_file_path(url, config) raises the ValueError of urlparse
PathRaises ==
    /\ p_pc = "call"
    /\ _get_file_path(p_url, p_config).raises
    /\ p_pc' = "raised"
    /\ UNCHANGED <<clipVars, diskVars, logVars, nsaves, p_url, p_config, p_ret, sanVars, fmtVars, raceVars>>

NextPath == PathReturns \/ PathRaises

SpecPath == InitPath /\ [][NextPath]_vars

(* ---------------------------------------------------------------------- *)
(* _sanitize_filename called on its own, as tests/test_storage.py calls it *)
(* ---------------------------------------------------------------------- *)

\* how many characters an input name has
MaxNameLen == 3

\* the characters of the input names: letters of both cases, a digit, "_",
\* "-", whitespace, punctuation, and letters outside ASCII
NameChars == {"a", "B", "1", "_", "-", " ", "\n", ".", "/", "U+00E9", "U+00C9"}

InitSanitize ==
    /\ ClipInit
    /\ files = EmptyDisk.files
    /\ nsaves = 0
    /\ p_pc = "off"
    /\ p_url = <<>>
    /\ p_config = [create_subdirs |-> TRUE, include_timestamp |-> TRUE]
    /\ p_ret = [path |-> <<>>, mkdir |-> {}]
    /\ s_name \in TokenSeqs(NameChars, MaxNameLen)
    /\ s_ret = None
    /\ FormatIdle
    /\ RaceIdle

\* _sanitize_filename(name) returns
SanitizeReturns ==
    /\ s_ret = None
    /\ s_ret' = Some(_sanitize_filename(s_name))
    /\ UNCHANGED <<clipVars, diskVars, logVars, nsaves, p_pc, p_url, p_config, p_ret,
                   s_name, fmtVars, raceVars>>

NextSanitize == SanitizeReturns

SpecSanitize == InitSanitize /\ [][NextSanitize]_vars

(* ---------------------------------------------------------------------- *)
(* _format_clip called on its own                                          *)
(* ---------------------------------------------------------------------- *)

\* the arguments: bodies with surrounding whitespace and an inner newline, a
\* title given, empty or absent, tags absent, empty, blank, and with blank
\* entries among the others
FormatArgs ==
    [content : { <<"one">>, <<" ", "two", "\n">>, <<"\n", "a", "\n", "b", " ">> },
     url : {unknown, EarlierUrl},
     title : {None, Some(""), Some("T")},
     tags : {None, Some(<<>>), Some(<<" ", ",", " ">>), Some(<<"x", ",", " ", "y">>),
             Some(<<",", " ", "x", " ", ",", ",", "y", "z", ",">>)},
     config : ClipperConfig,
     now : 0..MaxClock]

InitFormat ==
    /\ ClipInit
    /\ files = EmptyDisk.files
    /\ nsaves = 0
    /\ p_pc = "off"
    /\ p_url = <<>>
    /\ p_config = [create_subdirs |-> TRUE, include_timestamp |-> TRUE]
    /\ p_ret = [path |-> <<>>, mkdir |-> {}]
    /\ s_name = <<>>
    /\ s_ret = None
    /\ f_args \in FormatArgs
    /\ f_ret = None
    /\ RaceIdle

\* _format_clip(content, url, title, tags, config) returns
FormatReturns ==
    /\ f_ret = None
    /\ f_ret' = Some(_format_clip(f_args.content, f_args.url, f_args.title, f_args.tags,
                                  f_args.config, f_args.now))
    /\ UNCHANGED <<clipVars, diskVars, logVars, nsaves, p_pc, p_url, p_config, p_ret,
                   sanVars, f_args, raceVars>>

NextFormat == FormatReturns

SpecFormat == InitFormat /\ [][NextFormat]_vars

(* ---------------------------------------------------------------------- *)
(* Two invocations at once, each naming and writing an image into the same *)
(* images directory: download_image (any extension) or save_clipboard_image *)
(* (".png"). Every exists() of the probing loop and the write are steps of *)
(* their own.                                                              *)
(* ---------------------------------------------------------------------- *)

\* the path process p is probing or has chosen
RacePath(p) == ImagePath(race[p].timestamp_ms, race[p].counter, race[p].ext)

InitRace ==
    /\ ClipInit
    /\ nsaves = 0
    /\ p_pc = "off"
    /\ p_url = <<>>
    /\ p_config = [create_subdirs |-> TRUE, include_timestamp |-> TRUE]
    /\ p_ret = [path |-> <<>>, mkdir |-> {}]
    /\ s_name = <<>>
    /\ s_ret = None
    /\ FormatIdle
    /\ \E exts \in [Procs -> {".png", ".jpg"}] :
          race = [p \in Procs |-> [pc |-> "start", timestamp_ms |-> 0, counter |-> 0,
                                   ext |-> exts[p]]]

RaceUnchanged(p) ==
    UNCHANGED <<clipVars, files, dirs, logVars, nsaves, p_pc, p_url, p_config, p_ret,
                sanVars, fmtVars>>

\* timestamp_ms = int(time.time() * 1000); counter = 0
RaceTime(p) ==
    /\ race[p].pc = "start"
    /\ \E timestamp_ms \in clock..MaxClock :
          /\ clock' = timestamp_ms
          /\ race' = [race EXCEPT ![p].pc = "probe", ![p].timestamp_ms = timestamp_ms,
                                  ![p].counter = 0]
    /\ UNCHANGED image_files
    /\ RaceUnchanged(p)

\* while image_path.exists(): counter += 1
RaceProbeTaken(p) ==
    /\ race[p].pc = "probe"
    /\ RacePath(p) \in DOMAIN image_files
    /\ race' = [race EXCEPT ![p].counter = race[p].counter + 1]
    /\ UNCHANGED <<image_files, clock>>
    /\ RaceUnchanged(p)

\* a variant of the step below that takes the name without looking
RaceProbeUnchecked(p) ==
    /\ race[p].pc = "probe"
    /\ race' = [race EXCEPT ![p].pc = "write"]
    /\ UNCHANGED <<image_files, clock>>
    /\ RaceUnchanged(p)

\* image_path.exists() is false: the loop ends with this name
RaceProbeFree(p) ==
    /\ race[p].pc = "probe"
    /\ RacePath(p) \notin DOMAIN image_files
    /\ race' = [race EXCEPT ![p].pc = "write"]
    /\ UNCHANGED <<image_files, clock>>
    /\ RaceUnchanged(p)

\* open(image_path, 'wb') / osascript "open for access ... with write
\* permission": the file is created or replaced
RaceWrite(p) ==
    /\ race[p].pc = "write"
    /\ image_files' = WriteImage(image_files, RacePath(p), [src |-> "image", run |-> p])
    /\ race' = [race EXCEPT ![p].pc = "written"]
    /\ UNCHANGED clock
    /\ RaceUnchanged(p)

\* the request or the store fails: None is returned, nothing is written
RaceFails(p) ==
    /\ race[p].pc = "write"
    /\ race' = [race EXCEPT ![p].pc = "failed"]
    /\ UNCHANGED <<image_files, clock>>
    /\ RaceUnchanged(p)

NextRace ==
    \E p \in Procs :
       \/ RaceTime(p)
       \/ RaceProbeTaken(p)
       \/ RaceProbeFree(p)
       \/ RaceWrite(p)
       \/ RaceFails(p)

SpecRace == InitRace /\ [][NextRace]_vars

(* ---------------------------------------------------------------------- *)
(* Properties                                                              *)
(* ---------------------------------------------------------------------- *)

\* nothing but whitespace, the empty text included
OnlyWhitespace(text) == \A i \in 1..Len(text) : text[i] \in Whitespace

\* the part occurs in the text as one piece
Occurs(part, text) ==
    \E i \in 1..(Len(text) - Len(part) + 1) : SubSeq(text, i, i + Len(part) - 1) = part

\* what the calls log[i..] wrote to path p, in call order
RECURSIVE WrittenTo(_, _, _)
WrittenTo(log, p, i) ==
    IF i > Len(log) THEN <<>>
    ELSE (IF log[i].file_path = p THEN log[i].clip_text ELSE <<>>) \o WrittenTo(log, p, i + 1)

\* a record from its opening "---" line to its closing one, holding the body
CompleteRecord(clip_text, body) ==
    /\ StartsWith(clip_text, <<"---", "\n", "## Clip: ">>)
    /\ EndsWith(clip_text, <<"\n", "\n", "---", "\n">>)
    /\ Occurs(<<"\n", "\n">> \o Strip(body, Whitespace) \o <<"\n", "\n", "---", "\n">>,
              clip_text)

\* C1: save_clip never overwrites or truncates. Two calls with the same URL and
\* configuration resolve to the same file; every file is what the disk held at
\* the start followed by the records of the calls that targeted it, in call
\* order, so that the earlier content is always an unchanged prefix and every
\* earlier body is still there; each record written is complete.
C1_AppendOnly ==
    /\ \A i, j \in 1..Len(calls) :
          calls[i].url = calls[j].url /\ calls[i].config = calls[j].config
             => calls[i].file_path = calls[j].file_path
    /\ \E disk \in Disks :
          /\ DOMAIN files = DOMAIN disk.files \cup {calls[i].file_path : i \in 1..Len(calls)}
          /\ \A p \in DOMAIN files :
                files[p] = (IF p \in DOMAIN disk.files THEN disk.files[p] ELSE <<>>)
                              \o WrittenTo(calls, p, 1)
    /\ \A i \in 1..Len(calls) :
          /\ CompleteRecord(calls[i].clip_text, calls[i].content)
          /\ Occurs(calls[i].clip_text, files[calls[i].file_path])

\* two calls with one URL and configuration and different bodies: the file holds
\* the first record, then the second
C1_Witness ==
    /\ Len(calls) = 2
    /\ calls[1].url = calls[2].url
    /\ calls[1].config = calls[2].config
    /\ calls[1].content # calls[2].content
    /\ files[calls[2].file_path] = calls[1].clip_text \o calls[2].clip_text

\* the clip files are the ones the invocation found
NoClipFileWritten == calls = <<>> /\ \E disk \in Disks : files = disk.files

\* the HTML of the clipboard was converted and gave the content that is kept
HtmlGaveContent == html_content # None /\ ~OnlyWhitespace(content)

C3_AsStated ==
    (/\ pc = "done"
     /\ result.kind = "NoClipboardContentError"
     /\ "ImageStoreFailure" \notin events)
    => OnlyWhitespace(clipboard.text) /\ ~clipboard.image

Absorbed == {"BrowserError", "ConversionFailure", "ImageFetchFailure",
             "UnicodeDecodeError", "ImageStoreFailure"}

HtmlConverted == html_content # None /\ pc \in {"validate", "context", "save", "done"}

\* the positions of the images of a document that download_image is called for
RemotePositions(doc) == SelectSeq(ImgPositions(doc), LAMBDA i : doc[i].v \in RemoteSrcs)

\* the file name of a path
NameOf(path) == path[Len(path)][1]

\* C5: html_to_markdown does not raise because an image fails to download. Every
\* image with a remote src is attempted, in document order, whatever happened
\* to the ones before it; an image that failed keeps its src and a downloaded
\* one refers to the file written; the markdown returned is the conversion of
\* that document with its text; image_count is the number of downloads that
\* succeeded.
C5_ImageFailuresTolerated ==
    /\ HtmlConverted =>
          \E remote \in {RemotePositions(clipboard.html[1])} :
             /\ Len(downloads) = Len(remote)
             /\ \A k \in 1..Len(remote) :
                   /\ downloads[k].src = clipboard.html[1][remote[k]].v
                   /\ soup[remote[k]].v =
                         IF downloads[k].local_path = None THEN downloads[k].src
                         ELSE LocalRef(NameOf(downloads[k].local_path[1]))
                   /\ downloads[k].local_path # None =>
                         /\ downloads[k].local_path[1] \in DOMAIN image_files
                         /\ image_files[downloads[k].local_path[1]] =
                               [src |-> downloads[k].src, run |-> "this"]
             /\ image_count =
                   Cardinality({k \in 1..Len(downloads) : downloads[k].local_path # None})
             /\ image_count =
                   Cardinality({downloads[k].local_path :
                                   k \in {j \in 1..Len(downloads) :
                                             downloads[j].local_path # None}})
             /\ content = Markdown(soup)
             /\ \A i \in 1..Len(soup) : soup[i].tag = "text" => Contains(content, soup[i].v)
    /\ pc = "images" => "ConversionFailure" \notin events /\ html_content # None

\* the first image fails, the last one is still fetched and counted
C5_Witness ==
    /\ HtmlConverted
    /\ pc = "done"
    /\ result.kind = "ClipResult"
    /\ Len(downloads) = 2
    /\ downloads[1].local_path = None
    /\ downloads[2].local_path # None
    /\ image_count = 1
    /\ Contains(content, ImageLink("", "a.jpg"))
    /\ Contains(content, "hello")

\* the image files the content kept links to: ![alt](./images/<name>)
LinkedImages ==
    {p \in DOMAIN image_files :
        \E alt \in {"", "clipboard_image"} :
           Contains(content, ImageLink(alt, LocalRef(NameOf(p))))}

\* the path "./images/<name>" names when read from the directory of file_path
ResolveFrom(file_path, name) ==
    PathJoin(PathJoin(Parent(file_path), <<"images">>), <<name>>)

\* C6 as stated: every image reference in a saved clip body has the form
\* ./images/<name> and, read relative to the directory of the markdown file
\* that holds the clip, names the stored image file, with create_subdirs on
\* and off.
C6_AsStated ==
    (pc = "done" /\ result.kind = "ClipResult")
    => \A p \in LinkedImages : ResolveFrom(result.file_path, NameOf(p)) = p

\* C7 as stated: one clip() invocation queries the browser context at most once.
C7_AsStated == queries <= 1

\* C8 as stated, for the invocations that query the browser once: when that
\* query fails and the clip is saved, on the HTML path as on the text path, the
\* record and the ClipResult carry the URL "unknown" and no title.
C8_AsStated ==
    (/\ pc = "done"
     /\ result.kind = "ClipResult"
     /\ "BrowserError" \in events
     /\ queries = 1)
    => /\ result.url = unknown
       /\ result.title = None
       /\ calls[Len(calls)].url = unknown
       /\ Occurs(<<"## Clip: ", "Untitled", "\n", "- **URL**: ">> \o unknown \o <<"\n">>,
                 calls[Len(calls)].clip_text)

\* The reference resolution of C9, from the parts urlparse gives: the host is
\* the netloc, "unknown" when there is none, without one leading "www."
RefHost(parsed) ==
    Let(IF parsed.netloc = <<>> THEN unknown ELSE parsed.netloc, LAMBDA host :
        IF Len(host) >= 4 /\ <<host[1], host[2], host[3], host[4]>> = www_dot
        THEN [i \in 1..(Len(host) - 4) |-> host[i + 4]]
        ELSE host)

\* index.md when nothing but slashes is in the path, otherwise the sanitized
\* path with "-" for "/", followed by ".md"
RefFilename(parsed) ==
    IF \A i \in 1..Len(parsed.path) : parsed.path[i] = "/"
    THEN index_md
    ELSE _sanitize_filename([i \in 1..Len(parsed.path) |->
                                IF parsed.path[i] = "/" THEN "-" ELSE parsed.path[i]])
            \o dot_md

\* clips_root/host/filename, or clips_root/host_filename
RefTarget(url, cfg) ==
    Let(urlparse(url), LAMBDA parsed :
        IF cfg.create_subdirs
        THEN PathJoin(PathJoin(clips_directory, RefHost(parsed)), RefFilename(parsed))
        ELSE PathJoin(clips_directory, RefHost(parsed) \o <<"_">> \o RefFilename(parsed)))

C10_AsStated ==
    /\ p_pc # "raised"
    /\ (p_pc = "returned" /\ ~urlparse(p_url).raises /\ urlparse(p_url).netloc = <<>>)
          => StartsWith(p_ret.path[2], unknown)

\* C11 as stated: for every input, _sanitize_filename returns only characters
\* of [a-z0-9_-], with no "-" at either end and no two "-" in a row.
C11_AsStated ==
    s_ret # None =>
       /\ \A i \in 1..Len(s_ret[1]) : s_ret[1][i] \in AsciiLower \cup Digits \cup {"_", "-"}
       /\ s_ret[1] # <<>> => s_ret[1][1] # "-" /\ s_ret[1][Len(s_ret[1])] # "-"
       /\ \A i \in 1..(Len(s_ret[1]) - 1) : ~(s_ret[1][i] = "-" /\ s_ret[1][i + 1] = "-")

\* the image file written last by the step taken
LastWritten == written'[Len(written')]

\* C12: within one process every image written by download_image or
\* save_clipboard_image goes to a path that did not exist before the write, so
\* no existing image file is ever replaced and the paths returned are pairwise
\* distinct; the name is image_{ms}_{n}{ext} with n the smallest counter from 0
\* whose path does not exist.
C12_FreshImagePaths ==
    /\ [](\A k \in 1..Len(written) :
             /\ written[k].path =
                   ImagePath(written[k].timestamp_ms, written[k].counter, written[k].ext)
             /\ written[k].path \in DOMAIN image_files
             /\ \A j \in 1..Len(written) : j # k => written[j].path # written[k].path)
    /\ [][/\ \A p \in DOMAIN image_files :
                p \in DOMAIN image_files' /\ image_files'[p] = image_files[p]
          /\ Len(written') > Len(written) =>
                /\ LastWritten.path \notin DOMAIN image_files
                /\ \A n \in 0..(LastWritten.counter - 1) :
                      ImagePath(LastWritten.timestamp_ms, n, LastWritten.ext)
                         \in DOMAIN image_files
                /\ DOMAIN image_files' = DOMAIN image_files \cup {LastWritten.path}
          /\ DOMAIN image_files' # DOMAIN image_files => Len(written') = Len(written) + 1
         ]_vars

\* a download and a clipboard store in one millisecond, with one extension and
\* an image of that millisecond on disk already: counters 1 and 2
C12_Witness ==
    /\ Len(written) = 2
    /\ written[1].timestamp_ms = written[2].timestamp_ms
    /\ written[1].ext = written[2].ext
    /\ written[1].counter = 1
    /\ written[2].counter = 2
    /\ EarlierImage \in DOMAIN image_files
    /\ image_files[EarlierImage].run = "earlier"

\* the entries of the comma-separated tags that are not blank, each without
\* the whitespace around it, in order
RefTags(tag_arg) ==
    IF tag_arg = None THEN <<>>
    ELSE Let(SelectSeq(Split(tag_arg[1], ","), LAMBDA e : ~OnlyWhitespace(e)), LAMBDA kept :
             [i \in 1..Len(kept) |->
                 SubSeq(kept[i],
                        CHOOSE a \in 1..Len(kept[i]) :
                           kept[i][a] \notin Whitespace
                           /\ \A b \in 1..(a - 1) : kept[i][b] \in Whitespace,
                        CHOOSE a \in 1..Len(kept[i]) :
                           kept[i][a] \notin Whitespace
                           /\ \A b \in (a + 1)..Len(kept[i]) : kept[i][b] \in Whitespace)])

\* "#t1 #t2 ..."
HashTags(taglist) == Join([i \in 1..Len(taglist) |-> <<"#">> \o taglist[i]], <<" ">>)

\* some line of the record starts with the label
HasLine(lines, label) == \E i \in 1..Len(lines) : lines[i] # <<>> /\ lines[i][1] = label

\* C13: the record of _format_clip opens with "---", the heading
\* "## Clip: <title>" ("Untitled" when there is no title) and the URL line; it
\* has a "- **Captured**" line exactly when include_timestamp is set and a
\* "- **Tags**" line exactly when some comma-separated entry is not blank, that
\* line listing the non-blank entries trimmed, in order, each after "#"; the
\* trimmed body follows between blank lines and the record closes with "---".
C13_RecordShape ==
    f_ret # None =>
       \E lines \in {Split(f_ret[1], "\n")}, taglist \in {RefTags(f_args.tags)} :
       \E nhead \in {3 + (IF f_args.config.include_timestamp THEN 1 ELSE 0)
                       + (IF taglist # <<>> THEN 1 ELSE 0)} :
          /\ Len(lines) >= nhead
          /\ lines[1] = <<"---">>
          /\ lines[2] = <<"## Clip: ",
                          IF f_args.title \in {None, Some("")} THEN "Untitled"
                          ELSE f_args.title[1]>>
          /\ lines[3] = <<"- **URL**: ">> \o f_args.url
          /\ HasLine(lines, "- **Captured**: ") <=> f_args.config.include_timestamp
          /\ f_args.config.include_timestamp =>
                lines[4] = <<"- **Captured**: ", Timestamp(f_args.now)>>
          /\ HasLine(lines, "- **Tags**: ") <=> taglist # <<>>
          /\ taglist # <<>> => lines[nhead] = <<"- **Tags**: ">> \o HashTags(taglist)
          /\ f_ret[1] = Join(SubSeq(lines, 1, nhead), <<"\n">>)
                          \o <<"\n", "\n">> \o Strip(f_args.content, Whitespace)
                          \o <<"\n", "\n", "---", "\n">>

\* no title, blank entries among the tags, a body with whitespace around it
C13_Witness ==
    /\ f_ret # None
    /\ f_args.title = None
    /\ f_args.tags = Some(<<",", " ", "x", " ", ",", ",", "y", "z", ",">>)
    /\ f_args.content = <<"\n", "a", "\n", "b", " ">>
    /\ f_args.config.include_timestamp
    /\ Occurs(<<"## Clip: ", "Untitled", "\n">>, f_ret[1])
    /\ Occurs(<<"- **Tags**: ", "#", "x", " ", "#", "y", "z", "\n", "\n", "a", "\n", "b",
                "\n", "\n", "---", "\n">>, f_ret[1])

\* process_html_images has parsed the HTML of the clipboard
HtmlParsed == clipboard.html # None /\ Len(soup) = Len(clipboard.html[1]) /\ soup # <<>>

\* C14: process_html_images changes the src of an image element only when the
\* download of that image succeeded. A src beginning with "data:" is never
\* handed to download_image, is not counted and stays as it is; a src whose
\* download failed, or that was not reached yet, is exactly what it was.
C14_SrcKeptUnlessDownloaded ==
    HtmlParsed =>
       \E doc \in {clipboard.html[1]} :
       \E remote \in {RemotePositions(doc)} :
          /\ Len(downloads) <= Len(remote)
          /\ \A k \in 1..Len(downloads) : downloads[k].src \in RemoteSrcs
          /\ \A i \in 1..Len(doc) :
                /\ soup[i].tag = doc[i].tag
                /\ soup[i].v # doc[i].v =>
                      \E k \in 1..Len(downloads) :
                         /\ remote[k] = i
                         /\ downloads[k].local_path # None
                         /\ soup[i].v = LocalRef(NameOf(downloads[k].local_path[1]))
                /\ doc[i].v = DataSrc => soup[i].v = DataSrc
          /\ \A k \in 1..Len(downloads) :
                downloads[k].local_path = None => soup[remote[k]].v = doc[remote[k]].v
          /\ pc = "images" =>
                image_count =
                   Cardinality({k \in 1..Len(downloads) : downloads[k].local_path # None})
          /\ (html_content # None /\ pc \in {"validate", "save", "done"}) =>
                \A i \in 1..Len(doc) :
                   (doc[i].tag = "img" /\ soup[i].v = doc[i].v)
                      => Contains(content, ImageLink("", doc[i].v))

\* one download failed and one succeeded: the data: image and the failed one
\* are in the body as they were, one image is counted
C14_Witness ==
    /\ HtmlParsed
    /\ pc = "done"
    /\ result.kind = "ClipResult"
    /\ html_content # None
    /\ downloads[1] = [src |-> "a.jpg", local_path |-> None]
    /\ downloads[2].local_path # None
    /\ Contains(content, ImageLink("", DataSrc))
    /\ Contains(content, ImageLink("", "a.jpg"))
    /\ ~Contains(content, ImageLink("", "/img/b"))
    /\ image_count = 1

\* the image files the images directory held when the invocation began
PreRunImages == {p \in DOMAIN image_files : image_files[p].run = "earlier"}

\* the writes of this invocation that stored the clipboard image
ClipboardStores ==
    {k \in 1..Len(written) : image_files[written[k].path].src = "clipboard"}

\* the body of the text path: the text as read, or the trimmed text and the
\* link to the stored image, or that link alone
TextPathBody(text, stored) ==
    IF stored = {} THEN text
    ELSE Let(ImageLink("clipboard_image", LocalRef(NameOf(The(stored)))), LAMBDA link :
             IF OnlyWhitespace(text) THEN <<link>>
             ELSE Strip(text, Whitespace) \o <<"\n", "\n", link>>)

\* What clip() does on a clipboard without HTML, as a function of the text, of
\* the image file stored (none when there is no image or storing it failed),
\* of the browser's answer and of the arguments: the no-content error for a
\* blank body, otherwise the body appended as one record to the file the URL
\* resolves to and the ClipResult for it; a failure to read the text or to
\* save ends it with the error for that.
OutcomeWithoutHtml(stored) ==
    \E body \in {TextPathBody(clipboard.text, stored)} :
       /\ result.kind \in {"ClipperError", "OSError"} =>
             /\ events \cap {"ClipboardReadFailure", "StorageFailure"} # {}
             /\ calls = <<>>
       /\ result.kind = "NoClipboardContentError" =>
             OnlyWhitespace(body) /\ calls = <<>>
       /\ result.kind = "ClipResult" =>
             \E ctx \in BrowserAnswers \cup {BrowserContext(unknown, None)} :
                /\ ~OnlyWhitespace(body)
                /\ content = body
                /\ result = ClipResult(_get_file_path(ctx.url, config).path,
                                       ctx.url, ctx.title, Len(body))
                /\ Len(calls) = 1
                /\ calls[1].file_path = result.file_path
                /\ calls[1].clip_text =
                      _format_clip(body, ctx.url, ctx.title, tags, config, clock)
                /\ EndsWith(files[result.file_path], calls[1].clip_text)

\* C15 as stated: when the clipboard exposes HTML and html_to_markdown raises,
\* clip() is not ended by that and its outcome (success or no-content failure,
\* the body appended, the target file, the ClipResult) is the one of clip() on
\* the same text, image and browser without the HTML, the clipboard image
\* getting the name it gets without the HTML: the first one free in the images
\* directory as the invocation found it.
C15_AsStated ==
    (pc = "done" /\ "ConversionFailure" \in events) =>
       /\ html_content = None
       /\ OutcomeWithoutHtml(
             {ImagePath(written[k].timestamp_ms,
                        ProbeCounter(PreRunImages, written[k].timestamp_ms, 0, ".png"),
                        ".png") : k \in ClipboardStores})

\* The same with the clipboard image under the name it was stored with: the
\* outcome of the fallback and the outcome without HTML are one function of
\* the text, the stored image, the browser's answer and the arguments.
C15_UpToImageName ==
    (pc = "done" /\ html_content = None) =>
       OutcomeWithoutHtml({written[k].path : k \in ClipboardStores})

\* what only the text and image path leaves behind
TextPathEvents == {"UnicodeDecodeError", "ClipboardReadFailure", "ImageStoreFailure"}

\* C16: the sources are tried in priority order and one path is taken. When
\* the clipboard exposes HTML and its conversion does not raise, the body is
\* exactly the converted markdown and the clipboard text and image are neither
\* read nor stored, whatever they are; clip() is in its text and image steps
\* only when there is no HTML or its conversion raised.
C16_OnePathByPriority ==
    /\ pc \in {"text", "image"} =>
          /\ html_content = None
          /\ clipboard.html = None \/ "ConversionFailure" \in events
    /\ (clipboard.html # None /\ "ConversionFailure" \notin events) =>
          /\ pc \notin {"text", "image", "context"}
          /\ ClipboardStores = {}
          /\ events \cap TextPathEvents = {}
          /\ pc \in {"validate", "save", "done"} =>
                /\ html_content = clipboard.html
                /\ content = Markdown(soup)
          /\ (pc = "done" /\ result.kind = "ClipResult") =>
                /\ calls[1].content = Markdown(soup)
                /\ result.content_length = Len(Markdown(soup))
    /\ (clipboard.html = None /\ pc \in {"validate", "context", "save", "done"}
        /\ result.kind # "ClipperError" /\ result.kind # "OSError") =>
          content = TextPathBody(clipboard.text, {written[k].path : k \in ClipboardStores})

\* HTML, text and an image on the clipboard: the clip saved is the markdown
\* of the HTML, and no clipboard image was stored
C16_Witness ==
    /\ pc = "done"
    /\ result.kind = "ClipResult"
    /\ clipboard.html # None
    /\ clipboard.text = <<" ", "hello">>
    /\ clipboard.image
    /\ "ConversionFailure" \notin events
    /\ calls[1].content = Markdown(soup)
    /\ ClipboardStores = {}
    /\ Len(written) = 2

\* process p wrote its image and the file at that path is no longer its own
Overwritten(p) ==
    /\ race[p].pc = "written"
    /\ image_files[RacePath(p)].run # p

\* C17: naming an image is not atomic across processes. Two invocations that
\* take their name in the same millisecond for the same extension can both
\* find image_{ms}_{n} free before either writes; both then write that path
\* and the image written first is replaced by the other. That, a probe
\* followed by another process's write, is the only way an image is lost: a
\* name is taken only when it was free, images of earlier runs are never
\* replaced, and an image that was replaced was replaced by a process that
\* chose the same millisecond, counter and extension.
C17_ProbeThenWriteRace ==
    /\ \A p \in Procs :
          (race[p].pc = "write" /\ RacePath(p) \in DOMAIN image_files) =>
             \E q \in Procs \ {p} : race[q].pc = "written" /\ RacePath(q) = RacePath(p)
    /\ \A f \in DOMAIN image_files :
          image_files[f].run \in Procs =>
             race[image_files[f].run].pc = "written" /\ RacePath(image_files[f].run) = f
    /\ \E disk \in Disks :
          \A f \in DOMAIN disk.image_files :
             f \in DOMAIN image_files /\ image_files[f] = disk.image_files[f]
    /\ \A p \in Procs :
          Overwritten(p) =>
             \E q \in Procs \ {p} :
                /\ race[q].pc = "written"
                /\ race[q].timestamp_ms = race[p].timestamp_ms
                /\ race[q].counter = race[p].counter
                /\ race[q].ext = race[p].ext
                /\ image_files[RacePath(p)].run = q

\* both took image_{ms}_{n}.png in one millisecond, both wrote, and the file
\* is the one of p2: the image of p1 is gone
C17_Witness ==
    /\ race["p1"].pc = "written"
    /\ race["p2"].pc = "written"
    /\ RacePath("p1") = RacePath("p2")
    /\ Overwritten("p1")
    /\ Cardinality({f \in DOMAIN image_files : image_files[f].run \in Procs}) = 1

\* C18 as stated: for every URL, _get_file_path returns a file name that ends
\* in ".md" and has at least one character before that suffix.
C18_AsStated ==
    p_pc = "returned" =>
       /\ EndsWith(p_ret.path[Len(p_ret.path)], dot_md)
       /\ Len(p_ret.path[Len(p_ret.path)]) > Len(dot_md)

====
